---- MODULE Spec2Model ----
(***************************************************************************)
(* The three-tier content pipeline of the knowledge base:                  *)
(*   brain-dumps/  ->  staging/  ->  docs/                                 *)
(* The content store is the three collection directories; the workflow     *)
(* operations (ingest, review-staging, integrate-content) are the steps of *)
(* the brain-dump-ingestion runbook; the schemas are those of              *)
(* src/content/config.ts.                                                  *)
(***************************************************************************)
EXTENDS Integers, Sequences, FiniteSets, TLC

\* ------------------------------------------------------------------ bounds
MaxDumps == 2
MaxTopics == 2

\* File names: brain-dumps/{date}-{slug}.mdx and staging/{topic-slug}.mdx
BrainDumpFiles == 1..MaxDumps
TopicSlugs == 1..MaxTopics
\* docs/{category}/{slug}.mdx
Categories == {"security", "guides"}

\* A frontmatter is a record of the fields the file gives: an optional field
\* the file omits is no field of the record.
Has(fm, f) == f \in DOMAIN fm

\* ------------------------------------------------- frontmatter and schemas
\* A parsed YAML value is a pair <<type, value>>.
Str(x) == <<"string", x>>
Num(n) == <<"number", n>>
Bool(b) == <<"boolean", b>>
Date(t) == <<"date", t>>
Strings(xs) == <<"strings", xs>>
Null == <<"null", 0>>

\* z.string(), z.date(), z.boolean(), z.number(), z.array(z.string()), z.enum([...])
ZString == [kind |-> "string", values |-> {}, mode |-> "required", dflt |-> Null]
ZDate == [kind |-> "date", values |-> {}, mode |-> "required", dflt |-> Null]
ZBoolean == [kind |-> "boolean", values |-> {}, mode |-> "required", dflt |-> Null]
ZNumber == [kind |-> "number", values |-> {}, mode |-> "required", dflt |-> Null]
ZArrayOfString == [kind |-> "strings", values |-> {}, mode |-> "required", dflt |-> Null]
ZEnum(vals) == [kind |-> "enum", values |-> vals, mode |-> "required", dflt |-> Null]
\* .optional() and .default(v)
Optional(z) == [z EXCEPT !.mode = "optional"]
Default(z, v) == [z EXCEPT !.mode = "default", !.dflt = v]

\* (mutant) tags declared required in docs, as it is in staging
docsSchema_TagsRequired ==
  [title |-> ZString,
   description |-> ZString,
   date |-> Optional(ZDate),
   draft |-> Default(ZBoolean, Bool(FALSE)),
   order |-> Optional(ZNumber),
   category |-> Optional(ZString),
   tags |-> ZArrayOfString,
   sidebar |-> Default(ZBoolean, Bool(TRUE))]

docsSchema ==
  [title |-> ZString,
   description |-> ZString,
   date |-> Optional(ZDate),
   draft |-> Default(ZBoolean, Bool(FALSE)),
   order |-> Optional(ZNumber),
   category |-> Optional(ZString),
   tags |-> Optional(ZArrayOfString),
   sidebar |-> Default(ZBoolean, Bool(TRUE))]

brainDumpsSchema ==
  [title |-> ZString,
   date |-> ZDate,
   source |-> ZEnum({"audio", "text", "transcript", "conversation"}),
   duration |-> Optional(ZString),
   tags |-> Optional(ZArrayOfString),
   processed |-> Default(ZBoolean, Bool(FALSE)),
   stagedItems |-> Optional(ZArrayOfString)]

\* (mutant) tags declared optional, as in the other two schemas
stagingSchema_TagsOptional ==
  [title |-> ZString,
   description |-> ZString,
   sourceFile |-> ZString,
   extractedDate |-> ZDate,
   targetCategory |-> Optional(ZString),
   status |-> Default(ZEnum({"new", "reviewed", "ready", "integrated"}), Str("new")),
   tags |-> Optional(ZArrayOfString),
   relatedTopics |-> Optional(ZArrayOfString),
   integrationNotes |-> Optional(ZString)]

stagingSchema ==
  [title |-> ZString,
   description |-> ZString,
   sourceFile |-> ZString,
   extractedDate |-> ZDate,
   targetCategory |-> Optional(ZString),
   status |-> Default(ZEnum({"new", "reviewed", "ready", "integrated"}), Str("new")),
   tags |-> ZArrayOfString,
   relatedTopics |-> Optional(ZArrayOfString),
   integrationNotes |-> Optional(ZString)]

Collections == {"docs", "brain-dumps", "staging"}

collections ==
  [c \in Collections |->
     CASE c = "docs" -> docsSchema
       [] c = "brain-dumps" -> brainDumpsSchema
       [] c = "staging" -> stagingSchema]

\* Whether the type z accepts the value v that the frontmatter gives.
Accepts(z, v) ==
  CASE z.kind = "enum" -> v[1] = "string" /\ v[2] \in z.values
    [] OTHER -> v[1] = z.kind

\* Whether field f of the schema is satisfied by frontmatter fm: a field the
\* frontmatter omits passes when it is optional or has a default.
FieldOk(schema, fm, f) ==
  IF Has(fm, f) THEN Accepts(schema[f], fm[f]) ELSE schema[f].mode # "required"

\* (mutant) a strict object schema: a key the schema does not have is an error
Valid_Strict(schema, fm) ==
  /\ DOMAIN fm \subseteq DOMAIN schema
  /\ \A f \in DOMAIN schema : FieldOk(schema, fm, f)

\* schema.safeParse(fm).success
Valid(schema, fm) == \A f \in DOMAIN schema : FieldOk(schema, fm, f)

\* (mutant) a field with a default always takes its default
Parse_DefaultWins(schema, fm) ==
  [f \in {g \in DOMAIN schema : Has(fm, g) \/ schema[g].mode = "default"} |->
     IF schema[f].mode = "default" THEN schema[f].dflt ELSE fm[f]]

\* schema.parse(fm): the given fields of the schema, defaults filled in,
\* unknown keys stripped.
Parse(schema, fm) ==
  [f \in {g \in DOMAIN schema : Has(fm, g) \/ schema[g].mode = "default"} |->
     IF Has(fm, f) THEN fm[f] ELSE schema[f].dflt]

\* The frontmatter of the documented examples.
ExampleFrontmatter ==
  [c \in Collections |->
     CASE c = "docs" ->
            [title |-> Str("t"), description |-> Str("d")]
       [] c = "brain-dumps" ->
            [title |-> Str("t"), date |-> Date(1), source |-> Str("audio"),
             duration |-> Str("20 minutes"), tags |-> Strings(<<"a">>),
             processed |-> Bool(FALSE)]
       [] c = "staging" ->
            [title |-> Str("t"), description |-> Str("d"),
             sourceFile |-> Str("brain-dumps/1.mdx"), extractedDate |-> Date(1),
             targetCategory |-> Str("security"), status |-> Str("new"),
             tags |-> Strings(<<"a">>), relatedTopics |-> Strings(<<"b">>)]]

\* What an edit may write into a field.
RawValues ==
  {Str(""), Str("x"), Str("ready"), Num(1), Bool(TRUE), Strings(<<"x">>), Null}

\* ---------------------------------------------------------- the content store
VARIABLES
  brainDumps,   \* src/content/brain-dumps: file -> frontmatter, for the files that exist
  staging,      \* src/content/staging:     file -> frontmatter, for the files that exist
  docs,         \* src/content/docs:        the files that exist
  pc,           \* the single actor's position in the runbook
  cur,          \* the ingest in progress: its dump, the topics extracted, the entries created
  sel,          \* the staging file under integration
  content,      \* the build's input: per collection, the frontmatter of a file under edit
  edits,        \* how many edits that frontmatter has had
  verdict,      \* the outcome of the last site build, "none" before any
  validated,    \* the collection entries of a successful build, with their data
  prevStatus,   \* the status the staging file had before its status was last edited
  extraDocs,    \* the further files of docs/: copies made of the docs file
  docPages,     \* the frontmatter of the pages of the docs collection, in collection order
  published,    \* const docs: the result of the published query
  nav,          \* const nav: the navigation generated from it
  dateSort,     \* the outcome of docs.sort by date: "none" before it has run
  qpc           \* the position of the page script that runs the queries

storeVars == <<brainDumps, staging, docs, pc, cur, sel>>
buildVars == <<content, edits, verdict, validated, prevStatus, extraDocs>>
queryVars == <<docPages, published, nav, dateSort, qpc>>
vars ==
  <<brainDumps, staging, docs, pc, cur, sel, content, edits, verdict, validated,
    prevStatus, extraDocs, docPages, published, nav, dateSort, qpc>>

Statuses == {"new", "reviewed", "ready", "integrated"}
StatusProgression == <<"new", "reviewed", "ready", "integrated">>

Rank(st) == CHOOSE i \in 1..Len(StatusProgression) : StatusProgression[i] = st

\* (mutant) a status is skipped
NextStatus_Skipping(st) ==
  IF Rank(st) + 1 < Len(StatusProgression) THEN StatusProgression[Rank(st) + 2] ELSE st

NextStatus(st) ==
  IF Rank(st) < Len(StatusProgression) THEN StatusProgression[Rank(st) + 1] ELSE st

NoIngest == [file |-> 0, topics |-> {}, created |-> {}]

InitStore ==
  /\ brainDumps = <<>>
  /\ staging = <<>>
  /\ docs = {}
  /\ pc = "idle"
  /\ cur = NoIngest
  /\ sel = 0

InitBuild ==
  /\ content = ExampleFrontmatter
  /\ edits = 0
  /\ verdict = "none"
  /\ validated = {}
  /\ prevStatus = "none"
  /\ extraDocs = <<>>

InitQuery ==
  /\ docPages = <<>>
  /\ published = <<>>
  /\ nav = <<>>
  /\ dateSort = "none"
  /\ qpc = "authoring"

Init == InitStore /\ InitBuild /\ InitQuery

\* ------------------------------------------------------------------ /ingest
\* The file of step 2: the frontmatter as captured, processed: false, and the
\* raw content exactly as provided.
RawDump(d) ==
  [title |-> d,
   date |-> d,
   source |-> IF d % 2 = 1 THEN "audio" ELSE "text",
   body |-> d,
   processed |-> FALSE]

\* Step 2: save the raw dump under a new file name, processed: false, no
\* stagedItems; an existing dump is never overwritten ("Never discard the raw
\* brain dump").
SaveRawDump(d) ==
  /\ pc = "idle"
  /\ d \notin DOMAIN brainDumps
  /\ brainDumps' = brainDumps @@ (d :> RawDump(d))
  /\ pc' = "extract"
  /\ cur' = [file |-> d, topics |-> {}, created |-> {}]
  /\ UNCHANGED <<staging, docs, sel>>
  /\ UNCHANGED <<buildVars, queryVars>>

\* (mutant) analyzing a dump again reopens it: processed goes back to false
AnalyzeBrainDump_Reopen(d) ==
  /\ pc = "idle"
  /\ d \in DOMAIN brainDumps
  /\ brainDumps' = [brainDumps EXCEPT ![d] = [@ EXCEPT !.processed = FALSE]]
  /\ pc' = "extract"
  /\ cur' = [file |-> d, topics |-> {}, created |-> {}]
  /\ UNCHANGED <<staging, docs, sel>>
  /\ UNCHANGED <<buildVars, queryVars>>

\* Step 1 for a dump that is already in brain-dumps/ (captured earlier, or
\* extracted from before): it is analyzed again and steps 3 to 5 follow; the
\* original is not saved a second time.
AnalyzeBrainDump(d) ==
  /\ pc = "idle"
  /\ d \in DOMAIN brainDumps
  /\ pc' = "extract"
  /\ cur' = [file |-> d, topics |-> {}, created |-> {}]
  /\ UNCHANGED <<brainDumps, staging, docs, sel>>
  /\ UNCHANGED <<buildVars, queryVars>>

\* Step 3: identify the distinct topics of the dump (possibly none); a topic
\* whose staging file already exists is not extracted again ("Check for
\* existing content before creating new").
ExtractAtomicTopics(T) ==
  /\ pc = "extract"
  /\ T \cap DOMAIN staging = {}
  /\ cur' = [cur EXCEPT !.topics = T]
  /\ pc' = "create"
  /\ UNCHANGED <<brainDumps, staging, docs, sel>>
  /\ UNCHANGED <<buildVars, queryVars>>

NoCategory == "none"

\* The traceability fields of a new entry: the source brain dump and the
\* date of the extraction (the dump's own date stands for it).
StagingFrontmatter(src, c) ==
  IF c = NoCategory
    THEN [sourceFile |-> src, extractedDate |-> src, status |-> "new"]
    ELSE [sourceFile |-> src, extractedDate |-> src, status |-> "new",
          targetCategory |-> c]

\* (mutant) the entry's back-reference names a file that was never saved
CreateStagingEntry_WrongSource(t, c) ==
  /\ pc = "create"
  /\ t \in cur.topics \ cur.created
  /\ staging' = staging @@ (t :> StagingFrontmatter(0, c))
  /\ cur' = [cur EXCEPT !.created = @ \cup {t}]
  /\ UNCHANGED <<brainDumps, docs, pc, sel>>
  /\ UNCHANGED <<buildVars, queryVars>>

\* Step 4: one staging entry per extracted topic, status "new".
CreateStagingEntry(t, c) ==
  /\ pc = "create"
  /\ t \in cur.topics \ cur.created
  /\ staging' = staging @@ (t :> StagingFrontmatter(cur.file, c))
  /\ cur' = [cur EXCEPT !.created = @ \cup {t}]
  /\ UNCHANGED <<brainDumps, docs, pc, sel>>
  /\ UNCHANGED <<buildVars, queryVars>>

\* (mutant) the references are written from the list of extracted topics
\* before every entry has been created
UpdateSourceReferences_Early ==
  /\ pc = "create"
  /\ brainDumps' = [brainDumps EXCEPT ![cur.file] =
        [processed |-> TRUE, stagedItems |-> cur.topics]]
  /\ pc' = "idle"
  /\ cur' = NoIngest
  /\ UNCHANGED <<staging, docs, sel>>
  /\ UNCHANGED <<buildVars, queryVars>>

\* The frontmatter of step 5: processed: true, and stagedItems, the links to
\* the staging entries created from this dump; the rest of the file is kept.
TrackedItems(fm, items) ==
  IF Has(fm, "stagedItems") THEN fm.stagedItems \cup items ELSE items

\* (mutant) the list of this extraction replaces the one already there
Tracked_Overwrite(fm, items) ==
  [f \in DOMAIN fm \cup {"stagedItems"} |->
     CASE f = "processed" -> TRUE
       [] f = "stagedItems" -> items
       [] OTHER -> fm[f]]

\* (mutant) the file is rewritten with the frontmatter block of step 5 alone
Tracked_Rewritten(fm, items) ==
  [processed |-> TRUE, stagedItems |-> TrackedItems(fm, items)]

Tracked(fm, items) ==
  [f \in DOMAIN fm \cup {"stagedItems"} |->
     CASE f = "processed" -> TRUE
       [] f = "stagedItems" -> TrackedItems(fm, items)
       [] OTHER -> fm[f]]

\* Step 5: update the original brain dump to track what was extracted.
UpdateSourceReferences ==
  /\ pc = "create"
  /\ cur.created = cur.topics
  /\ brainDumps' = [brainDumps EXCEPT ![cur.file] = Tracked(@, cur.created)]
  /\ pc' = "idle"
  /\ cur' = NoIngest
  /\ UNCHANGED <<staging, docs, sel>>
  /\ UNCHANGED <<buildVars, queryVars>>

\* ---------------------------------------------------------- /review-staging
\* (mutant) the category is left as it is
Categorized_Skipped(fm, c) == fm

Categorized(fm, c) ==
  IF Has(fm, "targetCategory") THEN fm ELSE fm @@ [targetCategory |-> c]

\* (mutant) the review stamps the entry with a date of its own
Reviewed_Restamped(fm, c) ==
  [fm EXCEPT !.status = NextStatus(fm.status), !.extractedDate = 0]

Reviewed(fm, c) ==
  IF fm.status = "reviewed"
    THEN [Categorized(fm, c) EXCEPT !.status = NextStatus(fm.status)]
    ELSE [fm EXCEPT !.status = NextStatus(fm.status)]

\* Updates status along the progression; an entry becomes ready only with
\* its target category identified.
ReviewStaging(s, c) ==
  /\ pc = "idle"
  /\ s \in DOMAIN staging
  /\ staging[s].status \in {"new", "reviewed"}
  /\ staging' = [staging EXCEPT ![s] = Reviewed(staging[s], c)]
  /\ UNCHANGED <<brainDumps, docs, pc, cur, sel>>
  /\ UNCHANGED <<buildVars, queryVars>>

\* ------------------------------------------------------- /integrate-content
\* (mutant) any entry not yet integrated is taken, whatever its status
CheckIntegrationReadiness_Unchecked(s) ==
  /\ pc = "idle"
  /\ s \in DOMAIN staging
  /\ staging[s].status # "integrated"
  /\ pc' = "place"
  /\ sel' = s
  /\ UNCHANGED <<brainDumps, staging, docs, cur>>
  /\ UNCHANGED <<buildVars, queryVars>>

\* (mutant) an entry already integrated is taken again
CheckIntegrationReadiness_Repeated(s) ==
  /\ pc = "idle"
  /\ s \in DOMAIN staging
  /\ staging[s].status \in {"ready", "integrated"}
  /\ pc' = "place"
  /\ sel' = s
  /\ UNCHANGED <<brainDumps, staging, docs, cur>>
  /\ UNCHANGED <<buildVars, queryVars>>

CheckIntegrationReadiness(s) ==
  /\ pc = "idle"
  /\ s \in DOMAIN staging
  /\ staging[s].status = "ready"
  /\ pc' = "place"
  /\ sel' = s
  /\ UNCHANGED <<brainDumps, staging, docs, cur>>
  /\ UNCHANGED <<buildVars, queryVars>>

\* (mutant) the placement is skipped
PlaceInDocs_Skipped ==
  /\ pc = "place"
  /\ pc' = "mark"
  /\ UNCHANGED <<brainDumps, staging, docs, cur, sel>>
  /\ UNCHANGED <<buildVars, queryVars>>

\* Handles placement in docs/{category}/{slug}.mdx.
PlaceInDocs ==
  /\ pc = "place"
  /\ Has(staging[sel], "targetCategory")
  /\ docs' = docs \cup {<<staging[sel].targetCategory, sel>>}
  /\ pc' = "mark"
  /\ UNCHANGED <<brainDumps, staging, cur, sel>>
  /\ UNCHANGED <<buildVars, queryVars>>

\* (mutant) the entry is put back at the start of the progression
MarkAsIntegrated_Reset ==
  /\ pc = "mark"
  /\ staging' = [staging EXCEPT ![sel] = [@ EXCEPT !.status = "new"]]
  /\ pc' = "idle"
  /\ sel' = 0
  /\ UNCHANGED <<brainDumps, docs, cur>>
  /\ UNCHANGED <<buildVars, queryVars>>

\* (mutant) "move": the staging file is removed once its content is in docs
MarkAsIntegrated_Move ==
  /\ pc = "mark"
  /\ staging' = [s \in DOMAIN staging \ {sel} |-> staging[s]]
  /\ pc' = "idle"
  /\ sel' = 0
  /\ UNCHANGED <<brainDumps, docs, cur>>
  /\ UNCHANGED <<buildVars, queryVars>>

\* (mutant) the source brain dump is discarded once an entry of it is integrated
MarkAsIntegrated_DiscardDump ==
  /\ pc = "mark"
  /\ staging' = [staging EXCEPT ![sel] = [@ EXCEPT !.status = "integrated"]]
  /\ brainDumps' = [d \in DOMAIN brainDumps \ {staging[sel].sourceFile} |-> brainDumps[d]]
  /\ pc' = "idle"
  /\ sel' = 0
  /\ UNCHANGED <<docs, cur>>
  /\ UNCHANGED <<buildVars, queryVars>>

\* Marks as integrated; the staging file stays.
MarkAsIntegrated ==
  /\ pc = "mark"
  /\ staging' = [staging EXCEPT ![sel] = [@ EXCEPT !.status = "integrated"]]
  /\ pc' = "idle"
  /\ sel' = 0
  /\ UNCHANGED <<brainDumps, docs, cur>>
  /\ UNCHANGED <<buildVars, queryVars>>

Next ==
  \/ \E d \in BrainDumpFiles : SaveRawDump(d)
  \/ \E d \in BrainDumpFiles : AnalyzeBrainDump(d)
  \/ \E T \in SUBSET TopicSlugs : ExtractAtomicTopics(T)
  \/ \E t \in TopicSlugs, c \in Categories \cup {NoCategory} : CreateStagingEntry(t, c)
  \/ UpdateSourceReferences
  \/ \E s \in TopicSlugs, c \in Categories : ReviewStaging(s, c)
  \/ \E s \in TopicSlugs : CheckIntegrationReadiness(s)
  \/ PlaceInDocs
  \/ MarkAsIntegrated

Spec == Init /\ [][Next]_vars

\* -------------------------------------------------------------- site build
MaxEdits == 2

\* The status of a staging file as the collection reads it: the validated
\* value, "invalid" when the schema rejects the one given.
StatusOf(fm) ==
  IF FieldOk(stagingSchema, fm, "status")
    THEN Parse(stagingSchema, fm).status[2]
    ELSE "invalid"

\* What the staging file's status was, when the edit of field f of the file
\* of collection c is an edit of that status.
StatusBefore(c, f) ==
  IF c = "staging" /\ f = "status" THEN StatusOf(content["staging"]) ELSE prevStatus

\* Set field f of the file of collection c to v.
SetField(c, f, v) ==
  /\ verdict = "none"
  /\ edits < MaxEdits
  /\ content' = [content EXCEPT ![c] =
        [g \in DOMAIN content[c] \cup {f} |-> IF g = f THEN v ELSE content[c][g]]]
  /\ content' # content
  /\ edits' = edits + 1
  /\ prevStatus' = StatusBefore(c, f)
  /\ UNCHANGED <<verdict, validated, extraDocs>>
  /\ UNCHANGED <<storeVars, queryVars>>

\* Remove field f from the file of collection c.
RemoveField(c, f) ==
  /\ verdict = "none"
  /\ edits < MaxEdits
  /\ Has(content[c], f)
  /\ content' = [content EXCEPT ![c] = [g \in DOMAIN content[c] \ {f} |-> content[c][g]]]
  /\ edits' = edits + 1
  /\ prevStatus' = StatusBefore(c, f)
  /\ UNCHANGED <<verdict, validated, extraDocs>>
  /\ UNCHANGED <<storeVars, queryVars>>

\* The docs file is copied to a second file of docs/ with the same content.
DuplicateDocPage ==
  /\ verdict = "none"
  /\ edits < MaxEdits
  /\ extraDocs = <<>>
  /\ extraDocs' = <<content["docs"]>>
  /\ edits' = edits + 1
  /\ UNCHANGED <<content, verdict, validated, prevStatus>>
  /\ UNCHANGED <<storeVars, queryVars>>

\* The staging file is copied unchanged into docs/.
CopyStagingToDocs ==
  /\ verdict = "none"
  /\ edits < MaxEdits
  /\ extraDocs = <<>>
  /\ extraDocs' = <<content["staging"]>>
  /\ edits' = edits + 1
  /\ UNCHANGED <<content, verdict, validated, prevStatus>>
  /\ UNCHANGED <<storeVars, queryVars>>

\* The files of the content tree, each with its collection, and their names.
TreeFiles ==
  {<<c, content[c]>> : c \in Collections}
     \cup {<<"docs", extraDocs[i]>> : i \in DOMAIN extraDocs}

FileName == [c \in Collections |-> c \o "/1.mdx"]

\* (mutant) the build also rejects a staging file whose status is earlier in
\* the progression than it was before the edit
BuildResult_OrderEnforced(files) ==
  IF /\ \A p \in files : Valid(collections[p[1]], p[2])
     /\ ~ (/\ prevStatus \in Statuses
           /\ StatusOf(content["staging"]) \in Statuses
           /\ Rank(StatusOf(content["staging"])) < Rank(prevStatus))
    THEN "succeeds" ELSE "fails"

\* (mutant) the build also resolves sourceFile against the files of
\* brain-dumps/
BuildResult_ReferencesResolved(files) ==
  IF /\ \A p \in files : Valid(collections[p[1]], p[2])
     /\ \A p \in files : p[1] = "staging" => p[2].sourceFile[2] = FileName["brain-dumps"]
    THEN "succeeds" ELSE "fails"

\* The build validates every file of every collection against its schema
\* and fails when one is rejected.
BuildResult(files) ==
  IF \A p \in files : Valid(collections[p[1]], p[2]) THEN "succeeds" ELSE "fails"

\* The entries a successful build makes of the files: each with its
\* collection, its frontmatter as written and its validated data.
CollectionEntries(files) ==
  {<<p[1], p[2], Parse(collections[p[1]], p[2])>> : p \in files}

Build ==
  /\ verdict = "none"
  /\ verdict' = BuildResult(TreeFiles)
  /\ validated' = IF verdict' = "succeeds" THEN CollectionEntries(TreeFiles) ELSE {}
  /\ UNCHANGED <<content, edits, prevStatus, extraDocs>>
  /\ UNCHANGED <<storeVars, queryVars>>

\* The field names an edit of a file of collection c writes: those of its
\* schema, and one the schema does not have; for a staging file also draft, a
\* key of the docs schema that its own schema does not have.
FieldNames(c) ==
  DOMAIN collections[c] \cup {"extra"} \cup (IF c = "staging" THEN {"draft"} ELSE {})

NextBuild ==
  \/ \E c \in Collections : \E f \in FieldNames(c), v \in RawValues : SetField(c, f, v)
  \/ \E c \in Collections : \E f \in FieldNames(c) : RemoveField(c, f)
  \/ DuplicateDocPage
  \/ CopyStagingToDocs
  \/ Build

SpecBuild == Init /\ [][NextBuild]_vars

\* --------------------------------------------------------- content queries
MaxDocs == 3

\* The frontmatter an author gives a page of docs: draft, order and date
\* given or omitted.
DocFrontmatters ==
  {[title |-> Str("t"), description |-> Str("d")] @@ d @@ o @@ t :
     d \in {<<>>, [draft |-> Bool(TRUE)], [draft |-> Bool(FALSE)]},
     o \in {<<>>, [order |-> Num(1)], [order |-> Num(1000)]},
     t \in {<<>>, [date |-> Date(1)], [date |-> Date(2)]}}

\* A page is added to src/content/docs; its slug is its place in the collection.
AddDocPage(fm) ==
  /\ qpc = "authoring"
  /\ Len(docPages) < MaxDocs
  /\ Valid(docsSchema, fm)
  /\ docPages' = Append(docPages, fm)
  /\ UNCHANGED <<published, nav, dateSort, qpc>>
  /\ UNCHANGED <<storeVars, buildVars>>

\* getCollection('docs'): every entry with its validated data.
GetCollection(pages) ==
  [i \in 1..Len(pages) |-> [slug |-> i, data |-> Parse(docsSchema, pages[i])]]

\* (mutant) the filter keeps the drafts
IsPublished_Inverted(entry) == entry.data.draft[2]

\* ({ data }) => !data.draft
IsPublished(entry) == ~ entry.data.draft[2]

\* const docs = await getCollection('docs', ({ data }) => !data.draft)
GetPublishedDocs ==
  /\ qpc = "authoring"
  /\ published' = SelectSeq(GetCollection(docPages), IsPublished)
  /\ qpc' = "queried"
  /\ UNCHANGED <<docPages, nav, dateSort>>
  /\ UNCHANGED <<storeVars, buildVars>>

\* b.data.date.getTime() - a.data.date.getTime(): date is undefined for an
\* entry that omits it, and getTime() of undefined throws a TypeError.
CompareThrows(a, b) == ~ Has(a.data, "date") \/ ~ Has(b.data, "date")

\* The sort calls the comparator on every entry once there are two or more.
SortThrows(entries) ==
  \E i, j \in 1..Len(entries) : i # j /\ CompareThrows(entries[i], entries[j])

\* docs.sort((a, b) => b.data.date.getTime() - a.data.date.getTime()): a
\* stable sort, latest date first.
InsertByDate(entry, sorted) ==
  LET before == SelectSeq(sorted, LAMBDA x : x.data.date[2] >= entry.data.date[2])
      after == SelectSeq(sorted, LAMBDA x : x.data.date[2] < entry.data.date[2])
  IN before \o <<entry>> \o after

RECURSIVE SortedByDate(_)
SortedByDate(entries) ==
  IF entries = <<>> THEN <<>>
  ELSE InsertByDate(entries[Len(entries)],
                    SortedByDate(SubSeq(entries, 1, Len(entries) - 1)))

\* The sort is in place; when the comparator throws the script stops and
\* docs is as it was.
SortByDate ==
  /\ qpc = "queried"
  /\ dateSort = "none"
  /\ IF SortThrows(published)
       THEN dateSort' = "TypeError" /\ UNCHANGED published
       ELSE dateSort' = "sorted" /\ published' = SortedByDate(published)
  /\ UNCHANGED <<docPages, nav, qpc>>
  /\ UNCHANGED <<storeVars, buildVars>>

\* doc => ({ label, href, order: doc.data.order ?? 999 })
DefaultOrder == 999

NavItem(entry) ==
  [label |-> entry.data.title[2],
   href |-> entry.slug,
   order |-> IF Has(entry.data, "order") THEN entry.data.order[2] ELSE DefaultOrder]

\* (mutant) the items are left in collection order
InsertByOrder_Unsorted(item, sorted) == Append(sorted, item)

\* items.sort((a, b) => a.order - b.order): a stable sort by order.
InsertByOrder(item, sorted) ==
  LET before == SelectSeq(sorted, LAMBDA x : x.order <= item.order)
      after == SelectSeq(sorted, LAMBDA x : x.order > item.order)
  IN before \o <<item>> \o after

RECURSIVE SortByOrder(_)
SortByOrder(items) ==
  IF items = <<>> THEN <<>>
  ELSE InsertByOrder(items[Len(items)], SortByOrder(SubSeq(items, 1, Len(items) - 1)))

\* .map(doc => ...)
NavItems(entries) == [i \in 1..Len(entries) |-> NavItem(entries[i])]

GenerateNav ==
  /\ qpc = "queried"
  /\ nav' = SortByOrder(NavItems(SelectSeq(published, IsPublished)))
  /\ qpc' = "nav"
  /\ UNCHANGED <<docPages, published, dateSort>>
  /\ UNCHANGED <<storeVars, buildVars>>

NextQuery ==
  \/ \E fm \in DocFrontmatters : AddDocPage(fm)
  \/ GetPublishedDocs
  \/ SortByDate
  \/ GenerateNav

SpecQuery == Init /\ [][NextQuery]_vars

\* ================================================================ properties

\* C1: no workflow operation moves a staging entry's status to an earlier
\* value of new -> reviewed -> ready -> integrated.
StatusNeverMovesBack ==
  [][\A s \in DOMAIN staging \cap DOMAIN staging' :
        Rank(staging'[s].status) >= Rank(staging[s].status)]_vars

\* C1 witness: an entry has gone through the whole progression.
SomeEntryIntegrated ==
  \E s \in DOMAIN staging : staging[s].status = "integrated"

\* C2: in every state, also between the steps of an ingest, every staging
\* entry's sourceFile names an existing brain dump and its status is one of
\* the four values.
StagingEntriesWellFormed ==
  \A s \in DOMAIN staging :
     /\ staging[s].sourceFile \in DOMAIN brainDumps
     /\ staging[s].status \in Statuses

\* C2 witness: an ingest is between its steps, with an entry already created
\* and another still to create.
MidIngestWithEntry ==
  /\ pc = "create"
  /\ cur.created # {}
  /\ cur.created # cur.topics

\* C3: in every state, every entry of every brain dump's stagedItems names an
\* existing staging file.
StagedItemsExist ==
  \A d \in DOMAIN brainDumps :
     Has(brainDumps[d], "stagedItems") => brainDumps[d].stagedItems \subseteq DOMAIN staging

\* C3 witness: a brain dump lists two staged items while another ingest is
\* between its steps.
DumpListsItemsMidIngest ==
  /\ pc = "create"
  /\ \E d \in DOMAIN brainDumps :
        Has(brainDumps[d], "stagedItems") /\ brainDumps[d].stagedItems # {}

\* C4: a brain dump with processed = true has stagedItems present and
\* non-empty.
ProcessedImpliesStagedItems ==
  \A d \in DOMAIN brainDumps :
     brainDumps[d].processed =>
        Has(brainDumps[d], "stagedItems") /\ brainDumps[d].stagedItems # {}

\* C5: a brain dump file, once created, exists in every later state.
BrainDumpNeverDeleted ==
  [][DOMAIN brainDumps \subseteq DOMAIN brainDumps']_vars

\* C5 witness: a brain dump is still there after an entry extracted from it
\* has been integrated.
DumpOutlivesIntegration ==
  \E s \in DOMAIN staging :
     /\ staging[s].status = "integrated"
     /\ staging[s].sourceFile \in DOMAIN brainDumps
     /\ brainDumps[staging[s].sourceFile].processed

RequiredFields ==
  [c \in Collections |->
     CASE c = "docs" -> {"title", "description"}
       [] c = "brain-dumps" -> {"title", "date", "source"}
       [] c = "staging" -> {"title", "description", "sourceFile", "extractedDate", "tags"}]

\* The frontmatter of the files of collection c in the content tree.
FilesOf(c) == {p[2] : p \in {q \in TreeFiles : q[1] = c}}

MissingRequired(c) == \E fm \in FilesOf(c) : \E f \in RequiredFields[c] : ~ Has(fm, f)

SourceEnum == {Str("audio"), Str("text"), Str("transcript"), Str("conversation")}
StatusEnum == {Str("new"), Str("reviewed"), Str("ready"), Str("integrated")}

OutOfEnum(c) ==
  \/ c = "brain-dumps" /\ Has(content[c], "source") /\ content[c].source \notin SourceEnum
  \/ c = "staging" /\ Has(content[c], "status") /\ content[c].status \notin StatusEnum

DeclaredType ==
  [title |-> "string", description |-> "string", date |-> "date", draft |-> "boolean",
   order |-> "number", category |-> "string", tags |-> "strings", sidebar |-> "boolean",
   source |-> "string", duration |-> "string", processed |-> "boolean",
   stagedItems |-> "strings", sourceFile |-> "string", extractedDate |-> "date",
   targetCategory |-> "string", status |-> "string", relatedTopics |-> "strings",
   integrationNotes |-> "string"]

WellTyped(c) ==
  \A fm \in FilesOf(c) :
     \A f \in DOMAIN fm \cap DOMAIN collections[c] : fm[f][1] = DeclaredType[f]

\* C7 as stated: the build fails exactly when some file misses a required
\* field or gives source or status a value outside its enum; all other
\* frontmatter is accepted.
BuildFailsExactlyOnMissingOrEnum ==
  verdict # "none" =>
     (verdict = "fails" <=> \E c \in Collections : MissingRequired(c) \/ OutOfEnum(c))

\* C7 (amended): the build fails whenever some file misses a required field
\* or gives source or status a value outside its enum, and it succeeds when
\* every file has its required fields, in-enum values and every given schema
\* field of its declared type.
BuildRejectsMalformed ==
  verdict # "none" =>
     /\ (\E c \in Collections : MissingRequired(c) \/ OutOfEnum(c)) => verdict = "fails"
     /\ (\A c \in Collections : ~ MissingRequired(c) /\ ~ OutOfEnum(c) /\ WellTyped(c))
           => verdict = "succeeds"

\* C7 witness: a build has failed on a staging file without tags, and nothing
\* else is wrong.
BuildFailedOnMissingTags ==
  /\ verdict = "fails"
  /\ ~ Has(content["staging"], "tags")
  /\ \A c \in Collections : WellTyped(c) /\ ~ OutOfEnum(c)

\* C8: a DocPage that passes validation has a non-empty title and a
\* non-empty description.
AcceptedDocPageHasNonEmptyTitle ==
  verdict = "succeeds" =>
     /\ Has(content["docs"], "title") /\ content["docs"].title # Str("")
     /\ Has(content["docs"], "description") /\ content["docs"].description # Str("")

\* The slugs of a list of entries or navigation items.
Slugs(entries) == {entries[i].slug : i \in 1..Len(entries)}
Hrefs(items) == {items[i].href : i \in 1..Len(items)}

\* The pages whose frontmatter does not say draft: true.
NonDraftPages ==
  {i \in 1..Len(docPages) : ~ (Has(docPages[i], "draft") /\ docPages[i].draft = Bool(TRUE))}

\* C9: the published query, and the navigation built from it, contain no
\* page with draft = true and every other page, also one that omits draft.
PublishedIsExactlyNonDrafts ==
  /\ qpc \in {"queried", "nav"} => Slugs(published) = NonDraftPages
  /\ qpc = "nav" => Hrefs(nav) = NonDraftPages

\* C9 witness: the navigation was generated for a collection with a draft, a
\* page that says draft: false and a page that omits draft.
NavOverMixedDrafts ==
  /\ qpc = "nav"
  /\ \E i, j, k \in 1..Len(docPages) :
        /\ Has(docPages[i], "draft") /\ docPages[i].draft = Bool(TRUE)
        /\ Has(docPages[j], "draft") /\ docPages[j].draft = Bool(FALSE)
        /\ ~ Has(docPages[k], "draft")

\* The staging entries that exist and name dump d as their source.
EntriesFrom(d) == {s \in DOMAIN staging : staging[s].sourceFile = d}

\* The page of docs made from staging entry s.
DocPageOf(s) == <<staging[s].targetCategory, s>>

\* C13: a page of docs is created only by integrate, from the staging entry
\* it has selected and whose status is ready at that moment; and an entry
\* becomes integrated only from ready, never from new or reviewed.
DocsOnlyFromReadyStaging ==
  [][/\ docs' # docs =>
          /\ pc = "place"
          /\ sel \in DOMAIN staging
          /\ staging[sel].status = "ready"
          /\ docs' = docs \cup {DocPageOf(sel)}
     /\ \A s \in DOMAIN staging \cap DOMAIN staging' :
          (staging'[s].status = "integrated" /\ staging[s].status # "integrated")
             => staging[s].status = "ready"]_vars

\* C13 witness: docs holds a page, and another entry is still new.
DocPlacedWhileOtherNew ==
  /\ docs # {}
  /\ \E s \in DOMAIN staging : staging[s].status = "new"

\* No extraction is under way from dump d.
ExtractionCompleted(d) == ~ (pc \in {"extract", "create"} /\ cur.file = d)

RawContent(fm) == [f \in DOMAIN fm \ {"processed", "stagedItems"} |-> fm[f]]

\* C15: every workflow operation leaves the body, title, date and source of
\* every brain dump unchanged; only processed and stagedItems change.
BrainDumpContentUnchanged ==
  [][\A d \in DOMAIN brainDumps :
        /\ d \in DOMAIN brainDumps'
        /\ RawContent(brainDumps'[d]) = RawContent(brainDumps[d])
        /\ {"title", "date", "source", "body"} \subseteq DOMAIN brainDumps'[d]]_vars

\* C15 witness: a brain dump has had its references updated and lists two
\* entries, with the raw content it was saved with.
DumpUpdatedWithItems ==
  \E d \in DOMAIN brainDumps :
     /\ brainDumps[d].processed
     /\ Has(brainDumps[d], "stagedItems")
     /\ Cardinality(brainDumps[d].stagedItems) >= 2
     /\ RawContent(brainDumps[d]) = RawContent(RawDump(d))

\* C17: a brain dump is saved with processed = false; a staging entry is
\* created only for a dump that is already saved; and processed turns true
\* only when every entry of that ingest exists.
IngestOrder ==
  [][/\ \A d \in DOMAIN brainDumps' \ DOMAIN brainDumps : ~ brainDumps'[d].processed
     /\ \A s \in DOMAIN staging' \ DOMAIN staging :
          staging'[s].sourceFile \in DOMAIN brainDumps
     /\ \A d \in DOMAIN brainDumps \cap DOMAIN brainDumps' :
          (~ brainDumps[d].processed /\ brainDumps'[d].processed)
             => /\ cur.file = d
                /\ cur.topics \subseteq EntriesFrom(d)]_vars

\* C17 witness: an ingest has created one of its two entries and the dump is
\* still unprocessed.
UnprocessedMidIngest ==
  /\ pc = "create"
  /\ cur.created # {}
  /\ cur.created # cur.topics
  /\ ~ brainDumps[cur.file].processed

\* C18: every status change moves an entry to the immediate successor in
\* new, reviewed, ready, integrated.
NoStatusSkipped ==
  [][\A s \in DOMAIN staging \cap DOMAIN staging' :
        staging'[s].status # staging[s].status
           => Rank(staging'[s].status) = Rank(staging[s].status) + 1]_vars

\* C18 witness: an entry is ready, having been reviewed twice.
SomeEntryReady ==
  \E s \in DOMAIN staging : staging[s].status = "ready"

\* C19: in every state, every staging entry with status integrated has its
\* page in docs.
IntegratedHasDocPage ==
  \A s \in DOMAIN staging :
     staging[s].status = "integrated" => DocPageOf(s) \in docs

\* C19 witness: between the two steps of an integrate, the page is in docs
\* and the entry is not yet marked, while another entry is integrated.
PlacedNotYetMarked ==
  /\ pc = "mark"
  /\ staging[sel].status = "ready"
  /\ DocPageOf(sel) \in docs
  /\ \E s \in DOMAIN staging : staging[s].status = "integrated"

\* C20: in every state, every staging entry with status ready or integrated
\* has targetCategory set.
ReadyHasTargetCategory ==
  \A s \in DOMAIN staging :
     staging[s].status \in {"ready", "integrated"} => Has(staging[s], "targetCategory")

\* C20 witness: an entry is ready while another, reviewed once, still has no
\* target category.
CategorizedOnReview ==
  \E s \in DOMAIN staging :
     /\ staging[s].status = "ready"
     /\ \E t \in DOMAIN staging :
          t # s /\ staging[t].status = "reviewed" /\ ~ Has(staging[t], "targetCategory")

\* Every file of the tree has its required fields, in-enum values and fields
\* of the declared types.
SchemaConformant ==
  \A c \in Collections : ~ MissingRequired(c) /\ ~ OutOfEnum(c) /\ WellTyped(c)

\* The status a staging frontmatter stands for: the one it gives, new when it
\* gives none.
GivenStatus(fm) ==
  IF ~ Has(fm, "status") THEN "new"
  ELSE IF fm.status[1] = "string" THEN fm.status[2] ELSE "invalid"

\* The last edit of the staging file's status moved it to an earlier value
\* of the progression.
StatusMovedBack ==
  /\ prevStatus \in Statuses
  /\ GivenStatus(content["staging"]) \in Statuses
  /\ Rank(GivenStatus(content["staging"])) < Rank(prevStatus)

\* C11: the schema does not enforce the status order: a staging file whose
\* status was edited backward, and that is otherwise well-formed, passes
\* validation and the build succeeds.
StatusOrderNotEnforced ==
  (verdict # "none" /\ StatusMovedBack /\ SchemaConformant) => verdict = "succeeds"

\* C11 witness: a build has succeeded on a staging file whose status was
\* ready and was then edited back to new.
BuildSucceededAfterBackwardEdit ==
  /\ verdict = "succeeds"
  /\ prevStatus = "ready"
  /\ GivenStatus(content["staging"]) = "new"

\* A staging file's sourceFile names no file of brain-dumps/; a brain dump's
\* stagedItems names no file of staging/; docs/ holds a page twice.
DanglingSourceFile ==
  \E fm \in FilesOf("staging") :
     /\ Has(fm, "sourceFile")
     /\ fm.sourceFile[1] = "string"
     /\ fm.sourceFile[2] # FileName["brain-dumps"]

DanglingStagedItem ==
  \E fm \in FilesOf("brain-dumps") :
     /\ Has(fm, "stagedItems")
     /\ fm.stagedItems[1] = "strings"
     /\ \E i \in DOMAIN fm.stagedItems[2] : fm.stagedItems[2][i] # FileName["staging"]

DuplicatedDocPage == \E i \in DOMAIN extraDocs : extraDocs[i] = content["docs"]

\* C12: schema validation is the only boundary: a tree with a dangling
\* sourceFile, a dangling stagedItems entry or a duplicated page, whose files
\* each conform to their schema, is accepted by the build.
BrokenReferencesAccepted ==
  (/\ verdict # "none"
   /\ DanglingSourceFile \/ DanglingStagedItem \/ DuplicatedDocPage
   /\ SchemaConformant) => verdict = "succeeds"

\* C12 witness: a build has succeeded with a dangling sourceFile and a
\* dangling stagedItems entry in the tree.
BuildSucceededWithBrokenReferences ==
  /\ verdict = "succeeds"
  /\ DanglingSourceFile
  /\ DanglingStagedItem

\* A build has succeeded with a page of docs duplicated.
BuildSucceededWithDuplicate == verdict = "succeeds" /\ DuplicatedDocPage

\* The pages of docs made from staging entry s.
DocPagesFrom(s) == {p \in docs : p[2] = s}

\* C26: each staging entry is integrated at most once: a placement in docs is
\* made only for an entry that is not integrated and has no page yet, and no
\* entry ever has more than one page.
IntegratedAtMostOnce ==
  [][/\ (pc = "place" /\ pc' = "mark") =>
          /\ staging[sel].status # "integrated"
          /\ DocPagesFrom(sel) = {}
     /\ \A s \in DOMAIN staging' : Cardinality(DocPagesFrom(s)') <= 1]_vars

\* C26 witness: two entries are integrated, each with its one page, and the
\* workflow is idle again.
TwoEntriesIntegrated ==
  /\ pc = "idle"
  /\ Cardinality(docs) = 2
  /\ \A s \in TopicSlugs : s \in DOMAIN staging /\ staging[s].status = "integrated"

IsReviewStep == pc = "idle" /\ pc' = "idle" /\ staging' # staging

\* C28: a review changes only the entry under review: brain dumps, docs and
\* every other staging entry are unchanged, and the reviewed entry keeps its
\* sourceFile and extractedDate.
ReviewChangesOnlyReviewedEntry ==
  [][IsReviewStep =>
        /\ brainDumps' = brainDumps
        /\ docs' = docs
        /\ DOMAIN staging' = DOMAIN staging
        /\ Cardinality({s \in DOMAIN staging : staging'[s] # staging[s]}) = 1
        /\ \A s \in DOMAIN staging :
              /\ staging'[s].sourceFile = staging[s].sourceFile
              /\ staging'[s].extractedDate = staging[s].extractedDate]_vars

\* C28 witness: an entry has been reviewed while another is still new, a
\* third file, a page of docs, exists and the dump is processed.
ReviewedBesideOthers ==
  /\ pc = "idle"
  /\ docs # {}
  /\ \E s, t \in DOMAIN staging :
        /\ staging[s].status = "reviewed"
        /\ staging[t].status = "integrated"
        /\ brainDumps[staging[s].sourceFile].processed

\* The order a page's navigation item is to carry: the one its frontmatter
\* gives, 999 when it gives none.
ExpectedOrder(fm) == IF Has(fm, "order") THEN fm.order[2] ELSE 999

\* C24: the generated navigation lists the non-draft pages in non-decreasing
\* order of their order field, a page without order counting as 999.
NavSortedByOrder ==
  qpc = "nav" =>
     /\ Hrefs(nav) = NonDraftPages
     /\ \A i \in 1..Len(nav) : nav[i].order = ExpectedOrder(docPages[nav[i].href])
     /\ \A i, j \in 1..Len(nav) : i < j => nav[i].order <= nav[j].order

\* C24 witness: the navigation holds a page of order 1, then one without
\* order, then one of order 1000, and they were authored in another order.
NavWithDefaultOrderBetween ==
  /\ qpc = "nav"
  /\ Len(nav) = 3
  /\ nav[1].order = 1 /\ nav[2].order = 999 /\ nav[3].order = 1000
  /\ ~ Has(docPages[nav[2].href], "order")
  /\ nav[1].href = 3

\* C25: the date sort of the published pages succeeds and leaves them in
\* non-increasing order of date, also when some of them omit date.
DateSortSucceeds ==
  dateSort # "none" =>
     /\ dateSort = "sorted"
     /\ \A i, j \in 1..Len(published) :
           (i < j /\ Has(published[i].data, "date") /\ Has(published[j].data, "date"))
              => published[i].data.date[2] >= published[j].data.date[2]

\* The value field f is to have after validation: the one given, v when the
\* frontmatter omits it.
GivenOr(fm, f, v) == IF Has(fm, f) THEN fm[f] ELSE v

\* C21: validation fills the defaults of omitted fields (draft false and
\* sidebar true for docs, processed false for brain dumps, status new for
\* staging) and never replaces a field that is given.
DefaultsFilled ==
  \A e \in validated :
     /\ e[1] = "docs" =>
           /\ e[3].draft = GivenOr(e[2], "draft", Bool(FALSE))
           /\ e[3].sidebar = GivenOr(e[2], "sidebar", Bool(TRUE))
     /\ e[1] = "brain-dumps" => e[3].processed = GivenOr(e[2], "processed", Bool(FALSE))
     /\ e[1] = "staging" => e[3].status = GivenOr(e[2], "status", Str("new"))

\* C21 witness: a build has validated a docs page that omits draft and
\* sidebar, a brain dump that omits processed and a staging entry that gives
\* status ready.
BuildFilledDefaults ==
  /\ verdict = "succeeds"
  /\ \E e \in validated :
        /\ e[1] = "docs" /\ ~ Has(e[2], "draft") /\ ~ Has(e[2], "sidebar")
        /\ e[3].draft = Bool(FALSE) /\ e[3].sidebar = Bool(TRUE)
  /\ \E e \in validated :
        e[1] = "brain-dumps" /\ ~ Has(e[2], "processed") /\ e[3].processed = Bool(FALSE)
  /\ \E e \in validated :
        e[1] = "staging" /\ Has(e[2], "status") /\ e[3].status = Str("ready")

\* C22: a staging file without tags, sourceFile or extractedDate is
\* rejected, while a docs file or a brain dump without tags, and otherwise
\* conformant, is accepted.
TagsRequiredOnlyInStaging ==
  verdict # "none" =>
     /\ (\E f \in {"tags", "sourceFile", "extractedDate"} : ~ Has(content["staging"], f))
           => verdict = "fails"
     /\ (/\ ~ Has(content["docs"], "tags") \/ ~ Has(content["brain-dumps"], "tags")
         /\ SchemaConformant) => verdict = "succeeds"

\* C22 witness: no file of the tree has tags, nothing else is wrong, and the
\* build has failed.
BuildFailedOnStagingTagsAlone ==
  /\ verdict = "fails"
  /\ \A c \in Collections : ~ Has(content[c], "tags")
  /\ extraDocs = <<>>
  /\ \A c \in Collections : WellTyped(c) /\ ~ OutOfEnum(c)
  /\ \A c \in Collections : \A f \in RequiredFields[c] \ {"tags"} : Has(content[c], f)

\* A build has succeeded with tags omitted from the docs file and the brain
\* dump.
BuildSucceededWithoutOptionalTags ==
  /\ verdict = "succeeds"
  /\ ~ Has(content["docs"], "tags")
  /\ ~ Has(content["brain-dumps"], "tags")

\* The staging file is in docs/ as an unchanged copy.
StagingCopied == extraDocs = <<content["staging"]>>

\* The copy of the staging file is an entry of docs with draft = false.
CopyPublished ==
  \E e \in validated : e[1] = "docs" /\ e[2] = content["staging"] /\ e[3].draft = Bool(FALSE)

\* C23 as stated: whenever every file validates in its own collection, a
\* staging file copied unchanged into docs does not fail the build and is
\* published with draft = false.
StagingValidatesAsDocs ==
  (/\ verdict # "none"
   /\ StagingCopied
   /\ \A c \in Collections : Valid(collections[c], content[c]))
      => verdict = "succeeds" /\ CopyPublished

\* The keys the docs schema has and the staging schema does not.
DocsOnlyKeys == {"date", "draft", "order", "category", "sidebar"}

\* C23 (amended): the same, for a staging file whose frontmatter gives none
\* of the keys that only the docs schema declares.
StagingWithoutDocsKeysValidatesAsDocs ==
  (/\ verdict # "none"
   /\ StagingCopied
   /\ DOMAIN content["staging"] \cap DocsOnlyKeys = {}
   /\ \A c \in Collections : Valid(collections[c], content[c]))
      => verdict = "succeeds" /\ CopyPublished

\* C23 witness: a build has succeeded with the staging file, its
\* staging-only fields included, copied into docs, and the copy is published.
BuildPublishedStagingCopy ==
  /\ verdict = "succeeds"
  /\ StagingCopied
  /\ Has(content["staging"], "sourceFile")
  /\ DOMAIN content["staging"] \cap DocsOnlyKeys = {}
  /\ CopyPublished

====
